---- MODULE Spec2Model ----
(***************************************************************************)
(* A model of the WebGPU triangle demos of webgpu-playground:              *)
(*   "hardcoded"    src/src/basicTriangle/main.ts lines 1-98               *)
(*   "vertexColors" src/unnamed/part_000                                   *)
(*   "storage"      src/src/basicTriangle/main.ts lines 100-356            *)
(*   "uniforms"     src/src/uniforms/main.ts                               *)
(*   "combined"     src/unnamed/part_001 lines 1-213                       *)
(* Each demo is one page: main() acquires a device and a canvas context,   *)
(* builds a pipeline, fills the parameter buffers and starts a             *)
(* requestAnimationFrame loop; a ResizeObserver clamps the canvas size.    *)
(***************************************************************************)
EXTENDS Integers, Sequences, FiniteSets, TLC

(***************************************************************************)
(* Numbers.  A JavaScript number is modelled as the exact rational         *)
(* (n / d) * 2^k, kept normalised as <<n, d, k>> with n and d odd and      *)
(* coprime, d > 0 (zero is <<0, 1, 0>>).  Double rounding is not modelled  *)
(* (it occurs identically wherever the code computes a double); the        *)
(* rounding of a store into a Float32Array is: see Fround.                 *)
(***************************************************************************)
Abs(x) == IF x < 0 THEN -x ELSE x

RECURSIVE Gcd(_, _)
Gcd(a, b) == IF b = 0 THEN a ELSE Gcd(b, a % b)

RECURSIVE Pow2(_)
Pow2(k) == IF k = 0 THEN 1 ELSE 2 * Pow2(k - 1)

\* The number of factors 2 of a positive integer.
RECURSIVE Twos(_)
Twos(n) == IF n # 0 /\ n % 2 = 0 THEN 1 + Twos(n \div 2) ELSE 0

Zero == <<0, 1, 0>>

\* The number (n / d) * 2^k, for any integers n, k and d > 0.
Norm(n, d, k) ==
    IF n = 0 THEN Zero
    ELSE LET g  == Gcd(Abs(n), d)
             a  == Abs(n) \div g
             b  == d \div g
             ta == Twos(a)
             tb == Twos(b)
             s  == IF n < 0 THEN -1 ELSE 1
         IN  <<s * (a \div Pow2(ta)), b \div Pow2(tb), k + ta - tb>>

Num(n, d) == Norm(n, d, 0)

Mul(x, y) == Norm(x[1] * y[1], x[2] * y[2], x[3] + y[3])

\* What a division by zero yields (Infinity or NaN): no number.
NotANumber == <<0, 0, 1>>

\* x / y (the demos divide by the aspect ratio, which is positive whenever
\* canvas.width > 0 and canvas.height > 0).
Div(x, y) ==
    IF y[1] = 0 \/ y[2] = 0 \/ x[2] = 0 THEN NotANumber
    ELSE Norm((IF y[1] < 0 THEN -1 ELSE 1) * x[1] * y[2], x[2] * Abs(y[1]), x[3] - y[3])

Add(x, y) ==
    LET k == IF x[3] < y[3] THEN x[3] ELSE y[3]
    IN  Norm(x[1] * Pow2(x[3] - k) * y[2] + y[1] * Pow2(y[3] - k) * x[2],
             x[2] * y[2], k)

Sub(x, y) == Add(x, <<-y[1], y[2], y[3]>>)

IsPositive(x) == x[1] > 0

\* The least e >= from with a * 2^e >= d * 2^23.
RECURSIVE SigShift(_, _, _)
SigShift(a, d, from) ==
    IF a * Pow2(from) >= d * 8388608 THEN from ELSE SigShift(a, d, from + 1)

\* Math.fround: the nearest 32-bit float (24-bit significand, ties to even),
\* which is what a store into a Float32Array keeps.  Values here stay inside
\* the normal exponent range, so neither overflow nor subnormals arise.
Fround(x) ==
    LET a == Abs(x[1])
        d == x[2]
        s == IF x[1] < 0 THEN -1 ELSE 1
    IN  IF d = 0 \/ (d = 1 /\ a < 16777216) THEN x
        ELSE LET e == SigShift(a, d, 0)
                 m == (a * Pow2(e)) \div d
                 r == (a * Pow2(e)) - m * d
                 up == (2 * r > d) \/ (2 * r = d /\ m % 2 = 1)
             IN  Norm(s * (IF up THEN m + 1 ELSE m), 1, x[3] - e)

(***************************************************************************)
(* Bounds of the model.                                                    *)
(***************************************************************************)
\* kNumObjects is 100 in the code; the model runs every count 0..MaxObjects.
MaxObjects == 2

\* Saturation value of the per-record count of static uploads.
UploadCap == 2

(***************************************************************************)
(* The five pages.                                                         *)
(***************************************************************************)
Demos == {"hardcoded", "vertexColors", "storage", "uniforms", "combined"}

BufferDemos == {"storage", "uniforms", "combined"}

\* The demos that keep one uniform buffer (or pair) per object and issue
\* one draw per object.
PerObjectDemos == {"uniforms", "combined"}

(***************************************************************************)
(* Packed layouts, in bytes (sizes) and in floats (offsets).               *)
(***************************************************************************)
\* storage demo
\* The static record without its two padding floats.
staticUnitSizeUnpadded == 4 * 4 + 2 * 4

staticUnitSize == 4 * 4 + 2 * 4 + 2 * 4

\* The changing record without its padding float.
changingUnitSizeUnpadded == 2 * 4 + 1 * 4

changingUnitSize == 2 * 4 + 1 * 4 + 1 * 4

kColorOffset_storage == 0

kOffsetOffset_storage == 4

kScaleOffset_storage == 0

\* A time offset inside the scale pair.
kTimeOffsetInsideScale == kScaleOffset_storage + 1

kTimeOffset_storage == 2

\* uniforms demo
staticUniformBufferSize == 4 * 4 + 2 * 4 + 2 * 4

uniformBufferSize_uniforms == 2 * 4 + 1 * 4 + 1 * 4

kColorOffset_uniforms == 0

kOffsetOffset_uniforms == 4

kScaleOffset_uniforms == 0

kTimeOffset_uniforms == 2

\* combined demo
uniformBufferSize_combined == 4 * 4 + 2 * 4 + 2 * 4 + 1 * 4 + 3 * 4

kColorOffset_combined == 0

\* A scale offset inside the color.
kScaleOffsetInsideColor == kColorOffset_combined + 2

kScaleOffset_combined == 4

kOffsetOffset_combined == 6

kTimeOffset_combined == 8

\* The constants of the page d.
kColorOffset(d) ==
    CASE d = "storage" -> kColorOffset_storage
      [] d = "uniforms" -> kColorOffset_uniforms
      [] d = "combined" -> kColorOffset_combined

kOffsetOffset(d) ==
    CASE d = "storage" -> kOffsetOffset_storage
      [] d = "uniforms" -> kOffsetOffset_uniforms
      [] d = "combined" -> kOffsetOffset_combined

kScaleOffset(d) ==
    CASE d = "storage" -> kScaleOffset_storage
      [] d = "uniforms" -> kScaleOffset_uniforms
      [] d = "combined" -> kScaleOffset_combined

kTimeOffset(d) ==
    CASE d = "storage" -> kTimeOffset_storage
      [] d = "uniforms" -> kTimeOffset_uniforms
      [] d = "combined" -> kTimeOffset_combined

\* Bytes of one record in the array that holds the static fields, and in the
\* array that holds the dynamic fields (the combined demo has one array).
StaticStride(d) ==
    CASE d = "storage" -> staticUnitSize
      [] d = "uniforms" -> staticUniformBufferSize
      [] d = "combined" -> uniformBufferSize_combined

DynamicStride(d) ==
    CASE d = "storage" -> changingUnitSize
      [] d = "uniforms" -> uniformBufferSize_uniforms
      [] d = "combined" -> uniformBufferSize_combined

\* Widths of the fields, in floats: the lengths of the arrays handed to
\* Float32Array.set.
ColorWidth == 4

OffsetWidth == 2

ScaleWidth == 2

TimeWidth == 1

\* The padding floats each size expression declares.
StaticPadding(d) ==
    CASE d = "storage" -> 2
      [] d = "uniforms" -> 2
      [] d = "combined" -> 3

DynamicPadding(d) ==
    CASE d = "storage" -> 1
      [] d = "uniforms" -> 1
      [] d = "combined" -> 3

(***************************************************************************)
(* The host.                                                               *)
(***************************************************************************)
\* device.limits.maxTextureDimension2D (the WebGPU default limit).
maxTextureDimension2D == 8192

\* rand(min, max) of utils/random: min + u * (max - min) for a draw u in [0, 1).
Rand(lo, hi, u) == Add(lo, Mul(u, Sub(hi, lo)))

\* The draws of the page's pseudo-random generator, as a cycle; the page
\* starts somewhere in it.
RandomStream ==
    <<Num(0, 1), Num(2, 3), Num(1, 4), Num(1, 2), Num(3, 4), Num(1, 3), Num(1, 8)>>

Seeds == {0, 3}

\* The timestamps requestAnimationFrame hands to the callback ("undefined":
\* the callback is called without one).
Undefined == <<0, 0, 0>>

TimeStamps == {Undefined, Num(167, 10)}

\* contentBoxSize values a ResizeObserver entry may carry (CSS pixels).
ContentSizes == {Num(0, 1), Num(1, 2), Num(5, 2), Num(9000, 1)}

VARIABLES
    demo,          \* which page this is
    host,          \* what the browser offers: gpu, adapter, device, canvas, context
    kNumObjects,   \* the object count of the page
    rng,           \* position of the pseudo-random generator in RandomStream
    pc,            \* position of main()
    genI,          \* i of the "Generate triangles" loop
    page,          \* the paragraphs displayError prepended
    calls,         \* names of the device / host calls made so far
    objectInfos,   \* the objectInfos array: <<[scale |-> ..], ..>>
    cpuStatic,     \* the typed arrays holding static values, one per buffer
    cpuDyn,        \* the typed arrays uploaded every frame, one per buffer
    gpuStatic,     \* contents of the GPU buffers holding static values
    gpuDyn,        \* contents of the GPU buffers uploaded every frame
    bindGroups,    \* the bind groups: <<[static |-> b, dynamic |-> b], ..>>
    canvas,        \* [width, height] of the canvas
    pendingFrames, \* outstanding requestAnimationFrame requests
    fpc,           \* position of render()
    fi,            \* index of the loop over objectInfos in render()
    timeStamp,     \* render()'s argument
    time,          \* render()'s local
    aspect,        \* render()'s local
    encoder,       \* commands recorded in the render pass
    steps,         \* what the current (or last) frame did, in order
    observed,      \* what each drawn object read in the last submission
    lastInputs,    \* <<time, aspect>> of the frame of the last submission
    writes,        \* every typed-array slot written so far, with its field
    staticWritten, \* per record: the color and offset stored at initialization
    staticUploads, \* per record: writeBuffer calls that covered its static fields
    frameUploads   \* per frame: the float ranges the frame's writeBuffer calls covered

vars ==
    <<demo, host, kNumObjects, rng, pc, genI, page, calls, objectInfos,
      cpuStatic, cpuDyn, gpuStatic, gpuDyn, bindGroups, canvas, pendingFrames,
      fpc, fi, timeStamp, time, aspect, encoder, steps, observed, lastInputs,
      writes, staticWritten, staticUploads, frameUploads>>

mainVars == <<pc, genI, page, calls, rng, objectInfos, bindGroups>>

bufferVars == <<cpuStatic, cpuDyn, gpuStatic, gpuDyn>>

frameVars ==
    <<fpc, fi, timeStamp, time, aspect, encoder, steps, observed, lastInputs>>

ghostVars == <<writes, staticWritten, staticUploads, frameUploads>>

constVars == <<demo, host, kNumObjects>>

Zeros(n) == [j \in 1..n |-> Zero]

Init ==
    /\ demo \in Demos
    /\ host \in [gpu : BOOLEAN, adapter : BOOLEAN, device : BOOLEAN,
                 canvas : BOOLEAN, context : BOOLEAN]
    /\ IF demo \in BufferDemos
         THEN kNumObjects \in 0..MaxObjects /\ rng \in Seeds
         ELSE kNumObjects = 0 /\ rng = 0
    /\ pc = "start"
    /\ genI = 0
    /\ page = <<>>
    /\ calls = {}
    /\ objectInfos = <<>>
    /\ cpuStatic = <<>>
    /\ cpuDyn = <<>>
    /\ gpuStatic = <<>>
    /\ gpuDyn = <<>>
    /\ bindGroups = <<>>
    /\ canvas = [width |-> 300, height |-> 150]
    /\ pendingFrames = 0
    /\ fpc = "idle"
    /\ fi = 0
    /\ timeStamp = Undefined
    /\ time = Zero
    /\ aspect = Zero
    /\ encoder = <<>>
    /\ steps = <<>>
    /\ observed = <<>>
    /\ lastInputs = <<Zero, Zero>>
    /\ writes = {}
    /\ staticWritten = <<>>
    /\ staticUploads = [r \in 1..kNumObjects |-> 0]
    /\ frameUploads = {}

(***************************************************************************)
(* Typed arrays and GPU buffers.                                           *)
(***************************************************************************)
\* Float32Array.prototype.set(values, at): each value is stored as a 32-bit
\* float.  (at + Len(values) > length is a RangeError: see SetInRange.)
TypedArraySet(arr, values, at) ==
    [j \in 1..Len(arr) |->
        IF j > at /\ j <= at + Len(values) THEN Fround(values[j - at]) ELSE arr[j]]

SetInRange(arr, values, at) == at + Len(values) <= Len(arr)

\* device.queue.writeBuffer(buffer, 0, data): the whole of data, from byte 0.
QueueWriteBuffer(buf, data) ==
    [j \in 1..Len(buf) |-> IF j <= Len(data) THEN data[j] ELSE buf[j]]

\* The <<record, slot>> pairs (both from 0) of GPU buffer number b of the
\* given kind that hold a static field (color or offset) of a record.
FieldSlots(at, width) == at..(at + width - 1)

StaticSlots(d, kind, b) ==
    LET fields == FieldSlots(kColorOffset(d), ColorWidth)
                    \cup FieldSlots(kOffsetOffset(d), OffsetWidth)
    IN  CASE d = "storage" /\ kind = "static" ->
               {<<r, r * (staticUnitSize \div 4) + f>> :
                    r \in 0..(kNumObjects - 1), f \in fields}
          [] d = "uniforms" /\ kind = "static" -> {<<b - 1, f>> : f \in fields}
          [] d = "combined" /\ kind = "dynamic" -> {<<b - 1, f>> : f \in fields}
          [] OTHER -> {}

\* The records with a static field inside floats 0..n-1 of that buffer.
RecordsCovered(d, kind, b, n) ==
    {rs[1] : rs \in {x \in StaticSlots(d, kind, b) : x[2] < n}}

CountUploads(counts, covered) ==
    [r \in 1..Len(counts) |->
        IF (r - 1) \in covered /\ counts[r] < UploadCap
          THEN counts[r] + 1 ELSE counts[r]]

\* The i-th draw (from 0) of the generator since rng.
Draw(i) == RandomStream[((rng + i) % Len(RandomStream)) + 1]

(***************************************************************************)
(* main()                                                                  *)
(***************************************************************************)
\* navigator.gpu?.requestAdapter() in the hardcoded demo; the other pages
\* write navigator.gpu.requestAdapter().
OptionalGpu(d) == d = "hardcoded"

ContextMessage(d) ==
    IF d = "hardcoded" THEN "Canvas context for WegGPU not found"
    ELSE "Canvas not found"

\* requestAdapter, requestDevice and the check of the device.
AcquireDevice ==
    /\ pc = "start"
    /\ IF ~host.gpu /\ ~OptionalGpu(demo)
         THEN \* TypeError: navigator.gpu is undefined; main()'s promise rejects
              /\ pc' = "threw"
              /\ page' = page
         ELSE IF host.gpu /\ host.adapter /\ host.device
                THEN pc' = "device" /\ page' = page
                ELSE /\ page' = Append(page, "This page requires WebGPU")
                     /\ pc' = "returned"
    /\ UNCHANGED <<genI, calls, rng, objectInfos, bindGroups>>
    /\ UNCHANGED <<constVars, bufferVars, frameVars, ghostVars, canvas, pendingFrames>>

\* querySelector("canvas"), getContext("webgpu") and the check.
AcquireContext ==
    /\ pc = "device"
    /\ IF host.canvas /\ host.context
         THEN pc' = "context" /\ page' = page
         ELSE /\ page' = Append(page, ContextMessage(demo))
              /\ pc' = "returned"
    /\ UNCHANGED <<genI, calls, rng, objectInfos, bindGroups>>
    /\ UNCHANGED <<constVars, bufferVars, frameVars, ghostVars, canvas, pendingFrames>>

\* context.configure, createShaderModule, createRenderPipeline.
BuildPipeline ==
    /\ pc = "context"
    /\ calls' = calls \cup {"configure", "createShaderModule", "createRenderPipeline"}
    /\ pc' = CASE demo = "storage" -> "allocate"
               [] demo \in PerObjectDemos -> "generate"
               [] OTHER -> "ready"
    /\ UNCHANGED <<genI, page, rng, objectInfos, bindGroups>>
    /\ UNCHANGED <<constVars, bufferVars, frameVars, ghostVars, canvas, pendingFrames>>

\* storage demo: the two storage buffers and the static typed array.
AllocateStorage ==
    /\ pc = "allocate"
    /\ calls' = calls \cup {"createBuffer"}
    /\ gpuStatic' = <<Zeros((staticUnitSize * kNumObjects) \div 4)>>
    /\ gpuDyn' = <<Zeros((changingUnitSize * kNumObjects) \div 4)>>
    /\ cpuStatic' = <<Zeros((staticUnitSize * kNumObjects) \div 4)>>
    /\ pc' = "generate"
    /\ UNCHANGED <<genI, page, rng, objectInfos, bindGroups, cpuDyn>>
    /\ UNCHANGED <<constVars, frameVars, ghostVars, canvas, pendingFrames>>

\* The values one iteration of the "Generate triangles" loop draws.
RandomColor == <<Rand(Num(0, 1), Num(1, 1), Draw(0)), Rand(Num(0, 1), Num(1, 1), Draw(1)),
                 Rand(Num(0, 1), Num(1, 1), Draw(2)), Num(1, 1)>>

RandomOffset == <<Rand(Num(-1, 1), Num(1, 1), Draw(3)), Rand(Num(-1, 1), Num(1, 1), Draw(4))>>

RandomScale == Rand(Num(1, 5), Num(1, 2), Draw(5))

\* rand() calls per iteration.
DrawsPerObject == Len(RandomColor) - 1 + Len(RandomOffset) + 1

\* What the typed array keeps of the color and offset of the iteration.
StoredStatic ==
    [color  |-> [j \in 1..Len(RandomColor) |-> Fround(RandomColor[j])],
     offset |-> [j \in 1..Len(RandomOffset) |-> Fround(RandomOffset[j])]]

WriteLog(kind, b, at, width, field) ==
    {<<kind, b, s, field>> : s \in FieldSlots(at, width)}

\* storage demo: one iteration of the loop over kNumObjects.
GenerateStorage ==
    /\ pc = "generate" /\ demo = "storage" /\ genI < kNumObjects
    /\ LET staticOffset == genI * (staticUnitSize \div 4)
           a1 == TypedArraySet(cpuStatic[1], RandomColor, staticOffset + kColorOffset_storage)
           a2 == TypedArraySet(a1, RandomOffset, staticOffset + kOffsetOffset_storage)
       IN  IF /\ SetInRange(cpuStatic[1], RandomColor, staticOffset + kColorOffset_storage)
              /\ SetInRange(cpuStatic[1], RandomOffset, staticOffset + kOffsetOffset_storage)
             THEN /\ cpuStatic' = <<a2>>
                  /\ objectInfos' = Append(objectInfos, [scale |-> RandomScale])
                  /\ writes' = writes
                        \cup WriteLog("static", 1, staticOffset + kColorOffset_storage,
                                      ColorWidth, "color")
                        \cup WriteLog("static", 1, staticOffset + kOffsetOffset_storage,
                                      OffsetWidth, "offset")
                  /\ staticWritten' = Append(staticWritten, StoredStatic)
                  /\ rng' = (rng + DrawsPerObject) % Len(RandomStream)
                  /\ genI' = genI + 1
                  /\ pc' = pc
             ELSE \* RangeError: offset is out of bounds
                  /\ pc' = "threw"
                  /\ UNCHANGED <<cpuStatic, objectInfos, writes, staticWritten, rng, genI>>
    /\ UNCHANGED <<page, calls, bindGroups, cpuDyn, gpuStatic, gpuDyn>>
    /\ UNCHANGED <<constVars, frameVars, staticUploads, frameUploads, canvas, pendingFrames>>

\* FinishStorage without the writeBuffer of the static values.
FinishStorageNoUpload ==
    /\ pc = "generate" /\ demo = "storage" /\ genI = kNumObjects
    /\ cpuDyn' = <<Zeros((changingUnitSize * kNumObjects) \div 4)>>
    /\ bindGroups' = <<[static |-> 1, dynamic |-> 1]>>
    /\ calls' = calls \cup {"createBindGroup"}
    /\ pc' = "ready"
    /\ UNCHANGED <<genI, page, rng, objectInfos, cpuStatic, gpuStatic, gpuDyn>>
    /\ UNCHANGED <<constVars, frameVars, ghostVars, canvas, pendingFrames>>

\* storage demo: upload of the static values, the changing typed array and
\* the bind group.
FinishStorage ==
    /\ pc = "generate" /\ demo = "storage" /\ genI = kNumObjects
    /\ gpuStatic' = <<QueueWriteBuffer(gpuStatic[1], cpuStatic[1])>>
    /\ staticUploads' =
          CountUploads(staticUploads,
                       RecordsCovered(demo, "static", 1, Len(cpuStatic[1])))
    /\ cpuDyn' = <<Zeros((changingUnitSize * kNumObjects) \div 4)>>
    /\ bindGroups' = <<[static |-> 1, dynamic |-> 1]>>
    /\ calls' = calls \cup {"writeBuffer", "createBindGroup"}
    /\ pc' = "ready"
    /\ UNCHANGED <<genI, page, rng, objectInfos, cpuStatic, gpuDyn>>
    /\ UNCHANGED <<constVars, frameVars, writes, staticWritten, frameUploads, canvas,
                   pendingFrames>>

\* uniforms demo: one iteration of the loop over kNumObjects (a static
\* buffer written once, a changing buffer, a bind group).
GenerateUniforms ==
    /\ pc = "generate" /\ demo = "uniforms" /\ genI < kNumObjects
    /\ LET blank == Zeros(staticUniformBufferSize \div 4)
           a1 == TypedArraySet(blank, RandomColor, kColorOffset_uniforms)
           a2 == TypedArraySet(a1, RandomOffset, kOffsetOffset_uniforms)
           uniformValues == Zeros(uniformBufferSize_uniforms \div 4)
           b == genI + 1
       IN  IF /\ SetInRange(blank, RandomColor, kColorOffset_uniforms)
              /\ SetInRange(blank, RandomOffset, kOffsetOffset_uniforms)
              /\ SetInRange(uniformValues, <<Zero>>, kTimeOffset_uniforms)
             THEN /\ cpuStatic' = Append(cpuStatic, a2)
                  /\ gpuStatic' = Append(gpuStatic, QueueWriteBuffer(blank, a2))
                  /\ staticUploads' =
                        CountUploads(staticUploads,
                                     RecordsCovered(demo, "static", b, Len(a2)))
                  /\ cpuDyn' = Append(cpuDyn,
                        TypedArraySet(uniformValues, <<Zero>>, kTimeOffset_uniforms))
                  /\ gpuDyn' = Append(gpuDyn, Zeros(uniformBufferSize_uniforms \div 4))
                  /\ bindGroups' = Append(bindGroups, [static |-> b, dynamic |-> b])
                  /\ objectInfos' = Append(objectInfos, [scale |-> RandomScale])
                  /\ writes' = writes
                        \cup WriteLog("static", b, kColorOffset_uniforms, ColorWidth, "color")
                        \cup WriteLog("static", b, kOffsetOffset_uniforms, OffsetWidth, "offset")
                        \cup WriteLog("dynamic", b, kTimeOffset_uniforms, TimeWidth, "time")
                  /\ calls' = calls \cup {"createBuffer", "writeBuffer", "createBindGroup"}
                  /\ staticWritten' = Append(staticWritten, StoredStatic)
                  /\ rng' = (rng + DrawsPerObject) % Len(RandomStream)
                  /\ genI' = genI + 1
                  /\ pc' = pc
             ELSE /\ pc' = "threw"
                  /\ calls' = calls \cup {"createBuffer"}
                  /\ UNCHANGED <<cpuStatic, gpuStatic, staticUploads, cpuDyn, gpuDyn,
                                 bindGroups, objectInfos, writes, staticWritten, rng, genI>>
    /\ UNCHANGED <<page, constVars, frameVars, frameUploads, canvas, pendingFrames>>

\* combined demo: one iteration of the loop over kNumObjects (one buffer and
\* one typed array holding every field; nothing is uploaded here).
GenerateCombined ==
    /\ pc = "generate" /\ demo = "combined" /\ genI < kNumObjects
    /\ LET blank == Zeros(uniformBufferSize_combined \div 4)
           a1 == TypedArraySet(blank, RandomColor, kColorOffset_combined)
           a2 == TypedArraySet(a1, RandomOffset, kOffsetOffset_combined)
           a3 == TypedArraySet(a2, <<Zero>>, kTimeOffset_combined)
           b == genI + 1
       IN  IF /\ SetInRange(blank, RandomColor, kColorOffset_combined)
              /\ SetInRange(blank, RandomOffset, kOffsetOffset_combined)
              /\ SetInRange(blank, <<Zero>>, kTimeOffset_combined)
             THEN /\ cpuDyn' = Append(cpuDyn, a3)
                  /\ gpuDyn' = Append(gpuDyn, Zeros(uniformBufferSize_combined \div 4))
                  /\ bindGroups' = Append(bindGroups, [static |-> 0, dynamic |-> b])
                  /\ objectInfos' = Append(objectInfos, [scale |-> RandomScale])
                  /\ writes' = writes
                        \cup WriteLog("dynamic", b, kColorOffset_combined, ColorWidth, "color")
                        \cup WriteLog("dynamic", b, kOffsetOffset_combined, OffsetWidth, "offset")
                        \cup WriteLog("dynamic", b, kTimeOffset_combined, TimeWidth, "time")
                  /\ calls' = calls \cup {"createBuffer", "createBindGroup"}
                  /\ staticWritten' = Append(staticWritten, StoredStatic)
                  /\ rng' = (rng + DrawsPerObject) % Len(RandomStream)
                  /\ genI' = genI + 1
                  /\ pc' = pc
             ELSE /\ pc' = "threw"
                  /\ calls' = calls \cup {"createBuffer"}
                  /\ UNCHANGED <<cpuDyn, gpuDyn, bindGroups, objectInfos, writes,
                                 staticWritten, rng, genI>>
    /\ UNCHANGED <<page, cpuStatic, gpuStatic, staticUploads>>
    /\ UNCHANGED <<constVars, frameVars, frameUploads, canvas, pendingFrames>>

\* The loop over kNumObjects left one iteration early (i < kNumObjects - 1).
StartLoopEarly ==
    /\ \/ pc = "ready"
       \/ pc = "generate" /\ demo \in PerObjectDemos /\ genI >= kNumObjects - 1
    /\ calls' = calls \cup {"requestAnimationFrame"}
                      \cup (IF demo \in BufferDemos THEN {"observe"} ELSE {})
    /\ pendingFrames' = pendingFrames + 1
    /\ pc' = "running"
    /\ UNCHANGED <<genI, page, rng, objectInfos, bindGroups>>
    /\ UNCHANGED <<constVars, bufferVars, frameVars, ghostVars, canvas>>

\* resizeObserver.observe(canvas) (buffer demos) and the first
\* requestAnimationFrame(render).
StartLoop ==
    /\ \/ pc = "ready"
       \/ pc = "generate" /\ demo \in PerObjectDemos /\ genI = kNumObjects
    /\ calls' = calls \cup {"requestAnimationFrame"}
                      \cup (IF demo \in BufferDemos THEN {"observe"} ELSE {})
    /\ pendingFrames' = pendingFrames + 1
    /\ pc' = "running"
    /\ UNCHANGED <<genI, page, rng, objectInfos, bindGroups>>
    /\ UNCHANGED <<constVars, bufferVars, frameVars, ghostVars, canvas>>

(***************************************************************************)
(* The ResizeObserver callback.                                            *)
(***************************************************************************)
Less(x, y) == Sub(x, y)[1] < 0

MathMin(x, y) == IF Less(y, x) THEN y ELSE x

MathMax(x, y) == IF Less(x, y) THEN y ELSE x

\* The conversion of a non-negative number to the unsigned long that
\* canvas.width and canvas.height hold: the fraction is dropped.
ToUnsignedLong(x) ==
    IF x[3] >= 0 THEN (x[1] * Pow2(x[3])) \div x[2]
    ELSE x[1] \div (x[2] * Pow2(-x[3]))

\* The clamp without its lower bound: Math.min(size, maxTextureDimension2D).
ClampDimensionNoFloor(size) ==
    ToUnsignedLong(MathMin(size, Num(maxTextureDimension2D, 1)))

ClampDimension(size) ==
    ToUnsignedLong(MathMax(Num(1, 1), MathMin(size, Num(maxTextureDimension2D, 1))))

\* A resize callback that also requests a frame.
ResizeAndRequest(width, height) ==
    /\ pc = "running" /\ fpc = "idle" /\ demo \in BufferDemos
    /\ canvas' = [width |-> ClampDimension(width), height |-> ClampDimension(height)]
    /\ pendingFrames' = pendingFrames + 1
    /\ UNCHANGED <<constVars, mainVars, bufferVars, frameVars, ghostVars>>

Resize(width, height) ==
    /\ pc = "running" /\ fpc = "idle" /\ demo \in BufferDemos
    /\ canvas' = [width |-> ClampDimension(width), height |-> ClampDimension(height)]
    /\ UNCHANGED <<constVars, mainVars, bufferVars, frameVars, ghostVars, pendingFrames>>

(***************************************************************************)
(* render(): the frame callback, one action per statement group.           *)
(***************************************************************************)
\* The loop of render() stopping one record early.
LoopOrExitEarly(d, i) ==
    IF i < Len(objectInfos) - 1 THEN "loop"
    ELSE IF d = "storage" THEN "upload" ELSE "submit"

\* Where render() goes when its loop index is i: into the loop body, or past
\* the loop.
LoopOrExit(d, i) ==
    IF i < Len(objectInfos) THEN "loop"
    ELSE IF d = "storage" THEN "upload" ELSE "submit"

\* The typed array and the float offset render() writes record i (from 0) to.
DynArrayOf(d, i) == IF d = "storage" THEN 1 ELSE i + 1

\* The offset of record i computed without the padding float.
DynOffsetOfUnpadded(d, i) == IF d = "storage" THEN i * (ScaleWidth + TimeWidth) ELSE 0

DynOffsetOf(d, i) == IF d = "storage" THEN i * (changingUnitSize \div 4) ELSE 0

\* The update multiplying by the aspect ratio instead of dividing.
UpdateValuesTimesAspect(d, arr, offset, scale, asp, t) ==
    TypedArraySet(TypedArraySet(arr, <<Mul(scale, asp), scale>>, offset + kScaleOffset(d)),
                  <<t>>, offset + kTimeOffset(d))

\* The update adding the timestamp to the stored time.
UpdateValuesAccumulating(d, arr, offset, scale, asp, t) ==
    TypedArraySet(TypedArraySet(arr, <<Div(scale, asp), scale>>, offset + kScaleOffset(d)),
                  <<Add(arr[offset + kTimeOffset(d) + 1], t)>>, offset + kTimeOffset(d))

\* uniformValues.set([scale / aspect, scale], offset + kScaleOffset);
\* uniformValues.set([time], offset + kTimeOffset)
UpdateValues(d, arr, offset, scale, asp, t) ==
    TypedArraySet(TypedArraySet(arr, <<Div(scale, asp), scale>>, offset + kScaleOffset(d)),
                  <<t>>, offset + kTimeOffset(d))

\* The host calls the pending callback.  (time and aspect are locals of one
\* invocation: they are blank outside it.)
FrameBegin(ts) ==
    /\ pc = "running" /\ fpc = "idle" /\ pendingFrames > 0
    /\ pendingFrames' = pendingFrames - 1
    /\ timeStamp' = ts
    /\ fpc' = "entry"
    /\ fi' = 0
    /\ encoder' = <<>>
    /\ steps' = <<>>
    /\ frameUploads' = {}
    /\ UNCHANGED <<time, aspect, observed, lastInputs, writes, staticWritten,
                   staticUploads>>
    /\ UNCHANGED <<constVars, mainVars, bufferVars, canvas>>

\* render() without its first statement: the next frame is never requested.
RequestNextFrameForgotten ==
    /\ fpc = "entry"
    /\ pendingFrames' = pendingFrames
    /\ steps' = steps
    /\ fpc' = IF demo \in BufferDemos THEN "inputs" ELSE "beginPass"
    /\ UNCHANGED <<fi, timeStamp, time, aspect, encoder, observed, lastInputs>>
    /\ UNCHANGED <<constVars, mainVars, bufferVars, ghostVars, canvas>>

\* requestAnimationFrame(render), the first statement of render().
RequestNextFrame ==
    /\ fpc = "entry"
    /\ pendingFrames' = pendingFrames + 1
    /\ steps' = Append(steps, <<"requestAnimationFrame", 0>>)
    /\ fpc' = IF demo \in BufferDemos THEN "inputs" ELSE "beginPass"
    /\ UNCHANGED <<fi, timeStamp, time, aspect, encoder, observed, lastInputs>>
    /\ UNCHANGED <<constVars, mainVars, bufferVars, ghostVars, canvas>>

\* const time = timeStamp ?? 0; const aspect = canvas.width / canvas.height
ReadInputs ==
    /\ fpc = "inputs"
    /\ time' = IF timeStamp = Undefined THEN Zero ELSE timeStamp
    /\ aspect' = Div(Num(canvas.width, 1), Num(canvas.height, 1))
    /\ steps' = Append(steps, <<"aspect", 0>>)
    /\ fpc' = "beginPass"
    /\ UNCHANGED <<fi, timeStamp, encoder, observed, lastInputs>>
    /\ UNCHANGED <<constVars, mainVars, bufferVars, ghostVars, canvas, pendingFrames>>

\* createCommandEncoder, beginRenderPass (with context.getCurrentTexture()).
BeginPass ==
    /\ fpc = "beginPass"
    /\ steps' = Append(steps, <<"beginRenderPass", 0>>)
    /\ fpc' = "setPipeline"
    /\ UNCHANGED <<fi, timeStamp, time, aspect, encoder, observed, lastInputs>>
    /\ UNCHANGED <<constVars, mainVars, bufferVars, ghostVars, canvas, pendingFrames>>

\* context.getCurrentTexture() throws (InvalidStateError): the callback ends
\* there.
BeginPassThrows ==
    /\ fpc = "beginPass"
    /\ steps' = Append(steps, <<"throw", 0>>)
    /\ fpc' = "idle"
    /\ time' = Zero /\ aspect' = Zero
    /\ UNCHANGED <<fi, timeStamp, encoder, observed, lastInputs>>
    /\ UNCHANGED <<constVars, mainVars, bufferVars, ghostVars, canvas, pendingFrames>>

\* pass.setPipeline(pipeline)
SetPipeline ==
    /\ fpc = "setPipeline"
    /\ encoder' = Append(encoder, <<"setPipeline", 0, 0>>)
    /\ steps' = Append(steps, <<"setPipeline", 0>>)
    /\ fpc' = IF demo \in BufferDemos THEN LoopOrExit(demo, 0) ELSE "draw"
    /\ UNCHANGED <<fi, timeStamp, time, aspect, observed, lastInputs>>
    /\ UNCHANGED <<constVars, mainVars, bufferVars, ghostVars, canvas, pendingFrames>>

\* The two typed-array writes of one loop iteration.
UpdateRecord ==
    /\ fpc = "loop"
    /\ LET b == DynArrayOf(demo, fi)
           offset == DynOffsetOf(demo, fi)
           scale == objectInfos[fi + 1].scale
       IN  IF /\ SetInRange(cpuDyn[b], <<scale, scale>>, offset + kScaleOffset(demo))
              /\ SetInRange(cpuDyn[b], <<time>>, offset + kTimeOffset(demo))
             THEN /\ cpuDyn' = [cpuDyn EXCEPT
                        ![b] = UpdateValues(demo, cpuDyn[b], offset, scale, aspect, time)]
                  /\ writes' = writes
                        \cup WriteLog("dynamic", b, offset + kScaleOffset(demo),
                                      ScaleWidth, "scale")
                        \cup WriteLog("dynamic", b, offset + kTimeOffset(demo),
                                      TimeWidth, "time")
                  /\ steps' = Append(steps, <<"update", fi>>)
                  /\ IF demo = "storage"
                       THEN fi' = fi + 1 /\ fpc' = LoopOrExit(demo, fi + 1)
                       ELSE fi' = fi /\ fpc' = "upload"
                  /\ UNCHANGED <<time, aspect>>
             ELSE \* RangeError: the callback ends there
                  /\ fpc' = "idle"
                  /\ steps' = Append(steps, <<"throw", fi>>)
                  /\ time' = Zero /\ aspect' = Zero
                  /\ UNCHANGED <<cpuDyn, writes, fi>>
    /\ UNCHANGED <<timeStamp, encoder, observed, lastInputs>>
    /\ UNCHANGED <<cpuStatic, gpuStatic, gpuDyn, staticWritten, staticUploads,
                   frameUploads>>
    /\ UNCHANGED <<constVars, mainVars, canvas, pendingFrames>>

\* Every record uploading to the first buffer.
UploadTargetShared(d, i) == 1

\* The GPU buffer the frame's writeBuffer of record i goes to.
UploadTarget(d, i) == IF d = "storage" THEN 1 ELSE i + 1

\* device.queue.writeBuffer(buffer, 0, values): once for all records in the
\* storage demo, once per record in the others.
Upload ==
    /\ fpc = "upload"
    /\ LET b == UploadTarget(demo, fi)
           data == cpuDyn[DynArrayOf(demo, fi)]
       IN  /\ gpuDyn' = [gpuDyn EXCEPT ![b] = QueueWriteBuffer(gpuDyn[b], data)]
           /\ frameUploads' = frameUploads \cup {<<"dynamic", b, Len(data)>>}
           /\ staticUploads' =
                 CountUploads(staticUploads,
                              RecordsCovered(demo, "dynamic", b, Len(data)))
    /\ steps' = Append(steps, <<"writeBuffer", IF demo = "storage" THEN 0 ELSE fi>>)
    /\ fpc' = "bind"
    /\ UNCHANGED <<fi, timeStamp, time, aspect, encoder, observed, lastInputs>>
    /\ UNCHANGED <<cpuStatic, cpuDyn, gpuStatic, writes, staticWritten>>
    /\ UNCHANGED <<constVars, mainVars, canvas, pendingFrames>>

\* pass.setBindGroup(0, bindGroup)
SetBindGroup ==
    /\ fpc = "bind"
    /\ encoder' = Append(encoder,
                         <<"setBindGroup", IF demo = "storage" THEN 1 ELSE fi + 1, 0>>)
    /\ steps' = Append(steps, <<"setBindGroup", IF demo = "storage" THEN 0 ELSE fi>>)
    /\ fpc' = "draw"
    /\ UNCHANGED <<fi, timeStamp, time, aspect, observed, lastInputs>>
    /\ UNCHANGED <<constVars, mainVars, bufferVars, ghostVars, canvas, pendingFrames>>

\* pass.draw(3, kNumObjects - 1): one instance short.
InstanceCountShort(d) == IF d = "storage" THEN kNumObjects - 1 ELSE 1

\* pass.draw(3, kNumObjects) in the storage demo, pass.draw(3) elsewhere.
InstanceCount(d) == IF d = "storage" THEN kNumObjects ELSE 1

Draw3 ==
    /\ fpc = "draw"
    /\ encoder' = Append(encoder, <<"draw", 3, InstanceCount(demo)>>)
    /\ steps' = Append(steps, <<"draw", IF demo \in PerObjectDemos THEN fi ELSE 0>>)
    /\ IF demo \in PerObjectDemos
         THEN fi' = fi + 1 /\ fpc' = LoopOrExit(demo, fi + 1)
         ELSE fi' = fi /\ fpc' = "submit"
    /\ UNCHANGED <<timeStamp, time, aspect, observed, lastInputs>>
    /\ UNCHANGED <<constVars, mainVars, bufferVars, ghostVars, canvas, pendingFrames>>

(***************************************************************************)
(* The GPU side: what the vertex shader of each page reads.                *)
(***************************************************************************)
\* Float offsets of the WGSL struct members and the array strides, from the
\* struct declarations (vec4f: 4 floats, align 4; vec2f: 2 floats, align 2).
WgslColorAt(d) == 0

WgslOffsetAt(d) == IF d = "combined" THEN 6 ELSE 4

WgslScaleAt(d) == IF d = "combined" THEN 4 ELSE 0

WgslTimeAt(d) == IF d = "combined" THEN 8 ELSE 2

WgslStaticStride(d) == 8

WgslDynamicStride(d) == 4

Slice(buf, at, width) == [j \in 1..width |-> buf[at + j]]

\* The data instance inst (from 0) of a draw reads through bind group g.
ShaderRead(d, g, inst) ==
    LET stat == IF d = "combined" THEN gpuDyn[bindGroups[g].dynamic]
                ELSE gpuStatic[bindGroups[g].static]
        dyn == gpuDyn[bindGroups[g].dynamic]
        sAt == IF d = "storage" THEN inst * WgslStaticStride(d) ELSE 0
        dAt == IF d = "storage" THEN inst * WgslDynamicStride(d) ELSE 0
    IN  [color  |-> Slice(stat, sAt + WgslColorAt(d), 4),
         offset |-> Slice(stat, sAt + WgslOffsetAt(d), 2),
         scale  |-> Slice(dyn, dAt + WgslScaleAt(d), 2),
         time   |-> dyn[dAt + WgslTimeAt(d) + 1]]

\* The reads of the draws of a command sequence, in order; g is the bind
\* group that is set when the sequence starts.
RECURSIVE Execute(_, _)
Execute(cmds, g) ==
    IF cmds = <<>> THEN <<>>
    ELSE LET c == Head(cmds)
         IN  CASE c[1] = "setBindGroup" -> Execute(Tail(cmds), c[2])
               [] c[1] = "draw" /\ demo \in BufferDemos ->
                     [j \in 1..c[3] |-> ShaderRead(demo, g, j - 1)]
                        \o Execute(Tail(cmds), g)
               [] OTHER -> Execute(Tail(cmds), g)

\* pass.end(); encoder.finish(); device.queue.submit([commandBuffer]): the
\* queue runs the recorded draws after every writeBuffer issued before.
Submit ==
    /\ fpc = "submit"
    /\ observed' = Execute(encoder, 0)
    /\ lastInputs' = <<time, aspect>>
    /\ steps' = Append(steps, <<"submit", 0>>)
    /\ fpc' = "idle"
    /\ time' = Zero /\ aspect' = Zero
    /\ UNCHANGED <<fi, timeStamp, encoder>>
    /\ UNCHANGED <<constVars, mainVars, bufferVars, ghostVars, canvas, pendingFrames>>

\* The host calls a pending requestAnimationFrame callback at its next
\* repaint: a callback that stays pending is eventually called.
CallbackDelivered == \E ts \in TimeStamps : FrameBegin(ts)

Next ==
    \/ AcquireDevice
    \/ AcquireContext
    \/ BuildPipeline
    \/ AllocateStorage
    \/ GenerateStorage
    \/ FinishStorage
    \/ GenerateUniforms
    \/ GenerateCombined
    \/ StartLoop
    \/ \E w \in ContentSizes, h \in ContentSizes : Resize(w, h)
    \/ CallbackDelivered
    \/ RequestNextFrame
    \/ ReadInputs
    \/ BeginPass
    \/ BeginPassThrows
    \/ SetPipeline
    \/ UpdateRecord
    \/ Upload
    \/ SetBindGroup
    \/ Draw3
    \/ Submit

Spec == Init /\ [][Next]_vars

LiveSpec == Spec /\ WF_vars(CallbackDelivered)

(***************************************************************************)
(* Properties.                                                             *)
(***************************************************************************)
\* A frame ran to its submit and no other frame has started since.
FrameDone ==
    /\ pc = "running" /\ fpc = "idle"
    /\ steps # <<>> /\ steps[Len(steps)] = <<"submit", 0>>

\* Positions in steps of the step l, and of the steps named n.
Idx(l) == {j \in 1..Len(steps) : steps[j] = l}

Named(n) == {j \in 1..Len(steps) : steps[j][1] = n}

Before(A, B) == \A a \in A, b \in B : a < b

Unavailable ==
    ~(host.gpu /\ host.adapter /\ host.device /\ host.canvas /\ host.context)

MainEnded == pc \in {"returned", "threw"}

CreationCalls ==
    {"createShaderModule", "createRenderPipeline", "createBuffer", "createBindGroup",
     "requestAnimationFrame"}

\* C1 (as claimed): on every page, whenever the device or the context is
\* unavailable (navigator.gpu absent, no adapter, no device, no canvas, no
\* context), main() makes none of the creation calls and ends having produced
\* exactly one displayError message.
C1_UnavailableGivesOneMessage ==
    Unavailable =>
        /\ calls \cap CreationCalls = {}
        /\ pc # "running"
        /\ MainEnded => Len(page) = 1

\* C2: requestAnimationFrame(render) is the first step of every frame, so a
\* callback is pending at every later point of the frame and after a frame
\* that threw part-way; and after every frame another frame eventually
\* starts.
C2_RequestIsFirst ==
    /\ steps # <<>> => steps[1] = <<"requestAnimationFrame", 0>>
    /\ fpc \notin {"idle", "entry"} => steps # <<>>
    /\ pc = "running" /\ fpc # "entry" => pendingFrames >= 1

C2_NextFrameAlwaysScheduled ==
    /\ []C2_RequestIsFirst
    /\ (pc = "running" /\ fpc = "idle") ~> (fpc = "entry")

\* C2 witness: a frame threw part-way and the next callback is pending.
C2_Witness ==
    /\ pc = "running" /\ fpc = "idle" /\ pendingFrames = 1
    /\ steps # <<>> /\ steps[Len(steps)][1] = "throw"

\* C3 (as claimed): in a frame of a buffer demo the aspect ratio comes first,
\* then all parameter updates, then the uploads, then the binding of the
\* pipeline and of the bind groups, then the draws, then the submit.
C3_OriginalOrder ==
    demo \in BufferDemos /\ FrameDone =>
        /\ Before(Named("aspect"), Named("update"))
        /\ Before(Named("update"), Named("writeBuffer"))
        /\ Before(Named("writeBuffer"), Named("setPipeline") \cup Named("setBindGroup"))
        /\ Before(Named("setPipeline") \cup Named("setBindGroup"), Named("draw"))
        /\ Before(Named("draw"), Named("submit"))

\* The tag of the upload, bind and draw steps that serve record i.
StepTag(i) == IF demo = "storage" THEN 0 ELSE i

\* C3 (amended): a frame of a buffer demo starts with the request of the next
\* frame, the aspect ratio, the render pass and the binding of the pipeline
\* (before any parameter update); then, for every record, its update, the
\* upload that carries it, the binding of its bind group and its draw follow
\* in this order, each once; the submit is last.
C3_FrameOrder ==
    demo \in BufferDemos /\ FrameDone =>
        /\ Len(steps) >= 5
        /\ steps[1] = <<"requestAnimationFrame", 0>>
        /\ steps[2] = <<"aspect", 0>>
        /\ steps[3] = <<"beginRenderPass", 0>>
        /\ steps[4] = <<"setPipeline", 0>>
        /\ Named("setPipeline") = {4}
        /\ Named("submit") = {Len(steps)}
        /\ Cardinality(Named("update")) = kNumObjects
        /\ \A i \in 0..(kNumObjects - 1) :
              /\ Cardinality(Idx(<<"update", i>>)) = 1
              /\ Cardinality(Idx(<<"writeBuffer", StepTag(i)>>)) = 1
              /\ Cardinality(Idx(<<"setBindGroup", StepTag(i)>>)) = 1
              /\ Cardinality(Idx(<<"draw", StepTag(i)>>)) = 1
              /\ Before(Idx(<<"update", i>>), Idx(<<"writeBuffer", StepTag(i)>>))
              /\ Before(Idx(<<"writeBuffer", StepTag(i)>>), Idx(<<"setBindGroup", StepTag(i)>>))
              /\ Before(Idx(<<"setBindGroup", StepTag(i)>>), Idx(<<"draw", StepTag(i)>>))
        /\ demo = "storage" =>
              /\ Cardinality(Named("writeBuffer")) = 1
              /\ Before(Named("writeBuffer"), Named("setBindGroup"))
              /\ Before(Named("setBindGroup"), Named("draw"))

\* C3 witness: a finished frame of the uniforms demo with two objects.
C3_Witness == demo = "uniforms" /\ kNumObjects = 2 /\ FrameDone

\* The scale pair and the time the typed arrays hold for record i (from 0).
DynScale(arrs, i) ==
    Slice(arrs[DynArrayOf(demo, i)], DynOffsetOf(demo, i) + kScaleOffset(demo), ScaleWidth)

DynTime(arrs, i) ==
    arrs[DynArrayOf(demo, i)][DynOffsetOf(demo, i) + kTimeOffset(demo) + 1]

\* An existing GPU buffer changes only in a step that calls writeBuffer on it.
GpuWrittenByWriteBuffer ==
    /\ \A b \in DOMAIN gpuDyn :
          (b \in DOMAIN gpuDyn' /\ gpuDyn'[b] # gpuDyn[b]) =>
              /\ fpc = "upload" /\ fpc' = "bind"
              /\ b = UploadTarget(demo, fi)
              /\ gpuDyn'[b] = cpuDyn[DynArrayOf(demo, fi)]
    /\ \A b \in DOMAIN gpuStatic :
          (b \in DOMAIN gpuStatic' /\ gpuStatic'[b] # gpuStatic[b]) =>
              /\ pc = "generate" /\ pc' = "ready"
              /\ gpuStatic'[b] = cpuStatic[b]

\* What the draws of a finished frame observed: for every record, the scale
\* and time of that frame.
DrawsSeeFrameValues ==
    demo \in BufferDemos /\ FrameDone =>
        /\ Len(observed) = kNumObjects
        /\ \A i \in 1..kNumObjects :
              /\ observed[i].scale =
                    <<Fround(Div(objectInfos[i].scale, lastInputs[2])),
                      Fround(objectInfos[i].scale)>>
              /\ observed[i].time = Fround(lastInputs[1])

\* C4: GPU buffers change only by queue.writeBuffer, and the draw of every
\* record in a frame's submission observes the scale and time computed in that
\* frame for that record (instanced draw and per-object draws alike).
C4_DrawsReadThisFrame ==
    /\ []DrawsSeeFrameValues
    /\ [][GpuWrittenByWriteBuffer]_vars

\* C4 witness: a finished frame of a per-object demo with two objects, after a
\* resize, with a timestamp.
C4_Witness ==
    /\ demo = "uniforms" /\ kNumObjects = 2 /\ FrameDone
    /\ lastInputs = <<Num(167, 10), Num(1, 8192)>>
    /\ observed[2].time = Fround(Num(167, 10))

NoFrameUploadCoversStatic ==
    \A u \in frameUploads : RecordsCovered(demo, u[1], u[2], u[3]) = {}

\* C5 (as claimed): in every buffer demo the static fields of every record are
\* uploaded exactly once, and no per-frame upload covers a static field.
C5_Original ==
    demo \in BufferDemos /\ pc = "running" =>
        /\ \A r \in 1..kNumObjects : staticUploads[r] = 1
        /\ NoFrameUploadCoversStatic

\* C5 (amended): that holds in the storage demo and in the uniforms demo (two
\* buffers per object); in the combined demo every per-frame upload of a
\* record covers the static fields of that record, and only an upload made in
\* a frame puts them on the GPU.
C5_SeparateRegions ==
    /\ demo \in {"storage", "uniforms"} /\ pc = "running" =>
          /\ \A r \in 1..kNumObjects : staticUploads[r] = 1
          /\ NoFrameUploadCoversStatic
    /\ demo = "combined" =>
          /\ \A u \in frameUploads : RecordsCovered(demo, u[1], u[2], u[3]) = {u[2] - 1}
          /\ pc # "running" => \A r \in 1..kNumObjects : staticUploads[r] = 0

\* C5 witness: a finished frame of the uniforms demo: two per-frame uploads,
\* the static fields of both records uploaded once.
C5_Witness ==
    /\ demo = "uniforms" /\ kNumObjects = 2 /\ FrameDone
    /\ Cardinality(frameUploads) = 2
    /\ staticUploads = <<1, 1>>

\* The typed array and the GPU buffer holding the static fields of record r
\* (from 0), and the float offset of the record in them.
CpuStaticOf(r) ==
    CASE demo = "storage" -> cpuStatic[1]
      [] demo = "uniforms" -> cpuStatic[r + 1]
      [] demo = "combined" -> cpuDyn[r + 1]

GpuStaticOf(r) ==
    CASE demo = "storage" -> gpuStatic[1]
      [] demo = "uniforms" -> gpuStatic[r + 1]
      [] demo = "combined" -> gpuDyn[r + 1]

StaticAt(r) == IF demo = "storage" THEN r * (staticUnitSize \div 4) ELSE 0

HoldsStatic(buf, r) ==
    /\ Slice(buf, StaticAt(r) + kColorOffset(demo), ColorWidth) = staticWritten[r + 1].color
    /\ Slice(buf, StaticAt(r) + kOffsetOffset(demo), OffsetWidth) = staticWritten[r + 1].offset

\* C6: the color and offset stored at initialization stay in the typed array,
\* and in the GPU buffer once uploaded, whatever frames run; the per-frame
\* update writes no slot that holds a color or an offset.
C6_StaticStable ==
    demo \in BufferDemos =>
        /\ \A r \in 0..(Len(staticWritten) - 1) :
              /\ HoldsStatic(CpuStaticOf(r), r)
              /\ staticUploads[r + 1] >= 1 => HoldsStatic(GpuStaticOf(r), r)
        /\ \A w \in writes, v \in writes :
              (w[4] \in {"scale", "time"} /\ v[4] \in {"color", "offset"}) =>
                  <<w[1], w[2], w[3]>> # <<v[1], v[2], v[3]>>

\* C6 witness: the combined demo after at least two uploads of record 0.
C6_Witness ==
    /\ demo = "combined" /\ kNumObjects = 2 /\ FrameDone
    /\ staticUploads[1] >= 2
    /\ lastInputs[1] # Zero

\* C7 (as claimed): after every frame the dynamic slot of every record holds
\* baseScale / aspect, baseScale and the time.
C7_Original ==
    demo \in BufferDemos /\ FrameDone =>
        \A i \in 0..(kNumObjects - 1) :
            /\ DynScale(cpuDyn, i) =
                  <<Div(objectInfos[i + 1].scale, lastInputs[2]), objectInfos[i + 1].scale>>
            /\ DynTime(cpuDyn, i) = lastInputs[1]

\* C7 (amended): after every frame the dynamic slot of every record holds
\* baseScale / aspect, baseScale and the time, each rounded to the nearest
\* 32-bit float; aspect is canvas.width / canvas.height at the frame's entry
\* (positive) and time is the timestamp, or 0 without one.
C7_StoredRounded ==
    /\ demo \in BufferDemos /\ FrameDone =>
          \A i \in 0..(kNumObjects - 1) :
              /\ DynScale(cpuDyn, i) =
                    <<Fround(Div(objectInfos[i + 1].scale, lastInputs[2])),
                      Fround(objectInfos[i + 1].scale)>>
              /\ DynTime(cpuDyn, i) = Fround(lastInputs[1])
    /\ demo \in BufferDemos /\ fpc \notin {"idle", "entry", "inputs"} =>
          /\ aspect = Div(Num(canvas.width, 1), Num(canvas.height, 1))
          /\ IsPositive(aspect)
          /\ time = IF timeStamp = Undefined THEN Zero ELSE timeStamp

\* C7 witness: N = 1, baseScale = 0.4, aspect = 2: the slot holds
\* fround(0.2), fround(0.4) and the time.
C7_Witness ==
    /\ demo = "storage" /\ kNumObjects = 1 /\ FrameDone
    /\ objectInfos[1].scale = Num(2, 5)
    /\ lastInputs = <<Num(167, 10), Num(2, 1)>>
    /\ cpuDyn[1] = <<Fround(Num(1, 5)), Fround(Num(2, 5)), Fround(Num(167, 10)), Zero>>

\* The update of all records, as render() applies it, on the arrays arrs.
RECURSIVE UpdateAll(_, _, _, _)
UpdateAll(arrs, i, t, asp) ==
    IF i >= Len(objectInfos) THEN arrs
    ELSE UpdateAll([arrs EXCEPT ![DynArrayOf(demo, i)] =
                        UpdateValues(demo, arrs[DynArrayOf(demo, i)], DynOffsetOf(demo, i),
                                     objectInfos[i + 1].scale, asp, t)],
                   i + 1, t, asp)

BlankArrays == [b \in DOMAIN cpuDyn |-> Zeros(Len(cpuDyn[b]))]

\* After a frame: a second update with the same inputs changes nothing, and
\* the scale and time slots are those the update gives on blank arrays.
UpdateIsFunctionOfInputs ==
    demo \in BufferDemos /\ FrameDone =>
        /\ UpdateAll(cpuDyn, 0, lastInputs[1], lastInputs[2]) = cpuDyn
        /\ \A i \in 0..(kNumObjects - 1) :
              LET fresh == UpdateAll(BlankArrays, 0, lastInputs[1], lastInputs[2])
              IN  /\ DynScale(cpuDyn, i) = DynScale(fresh, i)
                  /\ DynTime(cpuDyn, i) = DynTime(fresh, i)

\* A frame with the inputs of the last finished frame leaves the typed arrays
\* as that frame left them.
RepeatedUpdateChangesNothing ==
    (fpc = "loop" /\ <<time, aspect>> = lastInputs) => cpuDyn' = cpuDyn

\* C8: the per-frame update is idempotent (a frame with the same timestamp and
\* aspect as the frame before leaves the dynamic buffer as it was) and its
\* result depends only on the base scales and the two inputs.
C8_UpdateIdempotent ==
    /\ []UpdateIsFunctionOfInputs
    /\ [][RepeatedUpdateChangesNothing]_vars

\* C8 witness: a second frame with the inputs of the frame before has updated
\* both records of the storage demo.
C8_Witness ==
    /\ demo = "storage" /\ kNumObjects = 2 /\ fpc = "upload"
    /\ <<time, aspect>> = lastInputs
    /\ time # Zero

\* C9: initialization creates exactly kNumObjects records (also for 0), the
\* static arrays and buffers of the storage demo have 32 bytes per record and
\* the changing ones 16, and the record count stays.
C9_CountAndSizes ==
    /\ demo \in BufferDemos /\ pc = "running" => Len(objectInfos) = kNumObjects
    /\ demo = "storage" /\ pc \in {"ready", "running"} =>
          /\ Len(cpuStatic) = 1 /\ Len(gpuStatic) = 1
          /\ Len(cpuDyn) = 1 /\ Len(gpuDyn) = 1
          /\ 4 * Len(cpuStatic[1]) = kNumObjects * 32
          /\ 4 * Len(gpuStatic[1]) = kNumObjects * 32
          /\ 4 * Len(cpuDyn[1]) = kNumObjects * 16
          /\ 4 * Len(gpuDyn[1]) = kNumObjects * 16

\* C9 witness: the storage demo with two records after a frame.
C9_Witness ==
    /\ demo = "storage" /\ kNumObjects = 2 /\ FrameDone
    /\ Len(cpuStatic[1]) = 16 /\ Len(cpuDyn[1]) = 8

\* The fields of a record of page d: <<name, float offset, width>>.
StaticFields(d) ==
    {<<"color", kColorOffset(d), ColorWidth>>, <<"offset", kOffsetOffset(d), OffsetWidth>>}

DynamicFields(d) ==
    {<<"scale", kScaleOffset(d), ScaleWidth>>, <<"time", kTimeOffset(d), TimeWidth>>}

Range(f) == FieldSlots(f[2], f[3])

\* The fields are pairwise disjoint, lie inside the stride and, with the
\* declared padding, fill it; the stride is a multiple of 16 bytes.
LayoutOk(fields, stride, padding) ==
    /\ \A f \in fields, g \in fields : f # g => Range(f) \cap Range(g) = {}
    /\ \A f \in fields : Range(f) \subseteq 0..((stride \div 4) - 1)
    /\ 4 * (Cardinality(UNION {Range(f) : f \in fields}) + padding) = stride
    /\ stride % 16 = 0

\* C10: in the static 32-byte record, the dynamic 16-byte record and the
\* combined 48-byte record the fields are pairwise disjoint and, with the
\* declared padding, add up to the stride, a multiple of 16; no slot of a typed
\* array is ever written as two different fields.
C10_LayoutsDisjoint ==
    /\ \A d \in {"storage", "uniforms"} :
          /\ StaticStride(d) = 32 /\ DynamicStride(d) = 16
          /\ LayoutOk(StaticFields(d), StaticStride(d), StaticPadding(d))
          /\ LayoutOk(DynamicFields(d), DynamicStride(d), DynamicPadding(d))
    /\ StaticStride("combined") = 48 /\ DynamicStride("combined") = 48
    /\ LayoutOk(StaticFields("combined") \cup DynamicFields("combined"),
                DynamicStride("combined"), DynamicPadding("combined"))
    /\ \A w \in writes, v \in writes :
          <<w[1], w[2], w[3]>> = <<v[1], v[2], v[3]>> => w[4] = v[4]

\* C10 witness: every field of the combined record has been written.
C10_Witness ==
    /\ demo = "combined" /\ kNumObjects = 2 /\ FrameDone
    /\ {w[4] : w \in {v \in writes : v[2] = 2}} = {"color", "offset", "scale", "time"}

\* main() has reached its last statement and no frame callback has run yet.
InitDone == pc = "running" /\ fpc = "idle" /\ steps = <<>>

StaticSlotsWritten == {w \in writes : w[4] \in {"color", "offset"}}

NoDynamicUpload ==
    /\ frameUploads = {}
    /\ \A b \in DOMAIN gpuDyn : gpuDyn[b] = Zeros(Len(gpuDyn[b]))

\* C11 (as claimed): when initialization completes, every record has had its
\* static fields written once, no scale or time slot has been written and
\* nothing has been uploaded to a dynamic buffer.
C11_Original ==
    demo \in BufferDemos /\ InitDone =>
        /\ Len(staticWritten) = kNumObjects
        /\ Cardinality(StaticSlotsWritten) = kNumObjects * (ColorWidth + OffsetWidth)
        /\ {w \in writes : w[4] \in {"scale", "time"}} = {}
        /\ NoDynamicUpload

\* C11 (amended): when initialization completes, every record has had its
\* static fields written once, no scale slot has been written and nothing has
\* been uploaded to a buffer holding dynamic fields; the storage demo has
\* written no time slot, the uniforms and combined demos have written 0 to the
\* time slot of every record, so every scale and time slot still holds 0.
C11_InitWrites ==
    demo \in BufferDemos /\ InitDone =>
        /\ Len(staticWritten) = kNumObjects
        /\ Cardinality(StaticSlotsWritten) = kNumObjects * (ColorWidth + OffsetWidth)
        /\ {w \in writes : w[4] = "scale"} = {}
        /\ {w \in writes : w[4] = "time"} =
              IF demo = "storage" THEN {}
              ELSE {<<"dynamic", r, kTimeOffset(demo), "time">> : r \in 1..kNumObjects}
        /\ \A i \in 0..(kNumObjects - 1) :
              /\ DynScale(cpuDyn, i) = <<Zero, Zero>>
              /\ DynTime(cpuDyn, i) = Zero
        /\ NoDynamicUpload

\* C11 witness: the uniforms demo with two records, initialization complete,
\* the time slot of the second record written.
C11_Witness ==
    /\ demo = "uniforms" /\ kNumObjects = 2 /\ InitDone
    /\ <<"dynamic", 2, kTimeOffset_uniforms, "time">> \in writes
    /\ Len(staticWritten) = 2

\* An invocation of render() has ended, and how.
FrameEnded == pc = "running" /\ fpc = "idle" /\ steps # <<>>

HostFault == steps[Len(steps)][1] = "throw"

DrawCommands == {j \in 1..Len(encoder) : encoder[j][1] = "draw"}

\* The steps of a whole frame, each once: N updates, uploads covering every
\* record, draws of N objects, one submit of the one command buffer, last.
WholeSequence ==
    /\ Cardinality(Named("requestAnimationFrame")) = 1
    /\ Cardinality(Named("beginRenderPass")) = 1
    /\ Cardinality(Named("setPipeline")) = 1
    /\ Cardinality(Named("submit")) = 1
    /\ steps[Len(steps)] = <<"submit", 0>>
    /\ demo \in BufferDemos =>
          /\ Cardinality(Named("aspect")) = 1
          /\ Cardinality(Named("update")) = kNumObjects
          /\ \A i \in 0..(kNumObjects - 1) : Cardinality(Idx(<<"update", i>>)) = 1
          /\ Len(observed) = kNumObjects
    /\ demo = "storage" =>
          /\ Cardinality(Named("writeBuffer")) = 1
          /\ frameUploads = {<<"dynamic", 1, kNumObjects * (changingUnitSize \div 4)>>}
          /\ Cardinality(Named("setBindGroup")) = 1
          /\ Cardinality(DrawCommands) = 1
          /\ \A j \in DrawCommands : encoder[j] = <<"draw", 3, kNumObjects>>
    /\ demo \in PerObjectDemos =>
          /\ Cardinality(Named("writeBuffer")) = kNumObjects
          /\ \A i \in 0..(kNumObjects - 1) :
                /\ Cardinality(Idx(<<"writeBuffer", i>>)) = 1
                /\ Cardinality(Idx(<<"setBindGroup", i>>)) = 1
                /\ Cardinality(Idx(<<"draw", i>>)) = 1
          /\ frameUploads =
                {<<"dynamic", b, DynamicStride(demo) \div 4>> : b \in 1..kNumObjects}
          /\ Cardinality(DrawCommands) = kNumObjects
          /\ \A j \in DrawCommands : encoder[j] = <<"draw", 3, 1>>
    /\ demo \notin BufferDemos =>
          /\ Cardinality(Named("draw")) = 1
          /\ Cardinality(DrawCommands) = 1

\* No step of the running (or last) invocation has been made twice.
NoStepRepeated ==
    \A j \in 1..Len(steps), k \in 1..Len(steps) : steps[j] = steps[k] => j = k

\* C12: render() has no branch, early return or retry: an invocation that the
\* host lets run (getCurrentTexture does not throw) recomputes the dynamic
\* fields of all N records, uploads every record's dynamic data, draws all N
\* objects and submits once, with no step skipped or repeated; one the host
\* stops at getCurrentTexture has updated, uploaded, drawn and submitted
\* nothing.
C12_WholeFrame ==
    /\ NoStepRepeated
    /\ FrameEnded /\ ~HostFault => WholeSequence
    /\ FrameEnded /\ HostFault =>
          /\ Named("update") \cup Named("writeBuffer") \cup Named("draw")
                \cup Named("submit") = {}
          /\ encoder = <<>>

\* C12 witness: a whole frame of the storage demo, one instanced draw of two
\* objects.
C12_Witness ==
    /\ demo = "storage" /\ kNumObjects = 2 /\ FrameEnded /\ ~HostFault
    /\ encoder = <<<<"setPipeline", 0, 0>>, <<"setBindGroup", 1, 0>>, <<"draw", 3, 2>>>>
    /\ Len(observed) = 2

\* What object r (from 1) is to be drawn with: the stored color and offset of
\* its record, its scale for the frame's aspect and the frame's time, as
\* 32-bit floats.  Nothing in it depends on the draw strategy.
RecordData(r) ==
    [color  |-> staticWritten[r].color,
     offset |-> staticWritten[r].offset,
     scale  |-> <<Fround(Div(objectInfos[r].scale, lastInputs[2])),
                  Fround(objectInfos[r].scale)>>,
     time   |-> Fround(lastInputs[1])]

\* The buffers strategy d fills for the records and inputs of this state:
\* <<static buffers, dynamic buffers>> after records 1..r-1.
BlankBuffers(d, stride) ==
    IF d = "storage" THEN <<Zeros(kNumObjects * (stride \div 4))>>
    ELSE [r \in 1..kNumObjects |-> Zeros(stride \div 4)]

RECURSIVE FilledBy(_, _, _, _)
FilledBy(d, stat, dyn, r) ==
    IF r > kNumObjects THEN <<stat, dyn>>
    ELSE LET b == DynArrayOf(d, r - 1)
             sAt == IF d = "storage" THEN (r - 1) * (StaticStride(d) \div 4) ELSE 0
             s1 == TypedArraySet(stat[b], staticWritten[r].color, sAt + kColorOffset(d))
             s2 == TypedArraySet(s1, staticWritten[r].offset, sAt + kOffsetOffset(d))
             d1 == UpdateValues(d, dyn[b], DynOffsetOf(d, r - 1), objectInfos[r].scale,
                                lastInputs[2], lastInputs[1])
         IN  FilledBy(d, [stat EXCEPT ![b] = s2], [dyn EXCEPT ![b] = d1], r + 1)

\* What the vertex shader of strategy d reads for object r from those buffers.
ReadBy(d, r) ==
    LET bufs == FilledBy(d, BlankBuffers(d, StaticStride(d)),
                         BlankBuffers(d, DynamicStride(d)), 1)
        b == DynArrayOf(d, r - 1)
        sAt == IF d = "storage" THEN (r - 1) * WgslStaticStride(d) ELSE 0
        dAt == IF d = "storage" THEN (r - 1) * WgslDynamicStride(d) ELSE 0
    IN  [color  |-> Slice(bufs[1][b], sAt + WgslColorAt(d), 4),
         offset |-> Slice(bufs[1][b], sAt + WgslOffsetAt(d), 2),
         scale  |-> Slice(bufs[2][b], dAt + WgslScaleAt(d), 2),
         time   |-> bufs[2][b][dAt + WgslTimeAt(d) + 1]]

OtherStrategy(d) == IF d = "storage" THEN "uniforms" ELSE "storage"

\* C13: in every frame, what the instanced draw over the shared storage
\* buffers reads for object i and what the per-object draw with its own
\* uniform buffers reads for object i are the same function of the record
\* (color, offset, base scale) and of the frame's timestamp and canvas size:
\* each page reads what the other strategy gives for the same records and
\* inputs.
C13_StrategiesAgree ==
    demo \in {"storage", "uniforms"} /\ FrameDone =>
        /\ Len(observed) = kNumObjects
        /\ \A r \in 1..kNumObjects :
              /\ observed[r] = RecordData(r)
              /\ observed[r] = ReadBy(OtherStrategy(demo), r)

\* C13 witness: the second object of a frame of the storage demo, after a
\* resize and with a timestamp, read as the per-object strategy gives it.
C13_Witness ==
    /\ demo = "storage" /\ kNumObjects = 2 /\ FrameDone
    /\ lastInputs[1] = Num(167, 10) /\ lastInputs[2] # Num(2, 1)
    /\ observed[2] = ReadBy("uniforms", 2)
    /\ observed[2].scale # observed[1].scale

\* Outstanding requests: none before main() requests the first frame, one
\* while the loop runs, except between the start of a callback and its first
\* statement.
OnePendingFrame ==
    /\ pendingFrames \in {0, 1}
    /\ pc # "running" => pendingFrames = 0
    /\ pc = "running" => (pendingFrames = 0 <=> fpc = "entry")

\* A callback starts only when no invocation is running, and a resize
\* notification neither runs inside a callback nor requests a frame.
NoOverlap ==
    /\ (fpc' = "entry" /\ fpc # "entry") => (fpc = "idle" /\ pendingFrames = 1)
    /\ canvas' # canvas => (fpc = "idle" /\ fpc' = "idle" /\ pendingFrames' = pendingFrames)

\* C14: once the loop has started there is never more than one frame callback
\* pending, resize notifications included; the count is 0 only between the
\* start of a callback and its first statement; two invocations of the
\* callback never overlap.
C14_OnePending ==
    /\ []OnePendingFrame
    /\ [][NoOverlap]_vars

\* C14 witness: a callback has started after a resize and has not yet made its
\* request.
C14_Witness ==
    /\ pc = "running" /\ fpc = "entry" /\ pendingFrames = 0
    /\ canvas # [width |-> 300, height |-> 150]
    /\ lastInputs # <<Zero, Zero>>

InDeviceRange(n) == n \in 1..maxTextureDimension2D

\* canvas.width and canvas.height after a notification with content-box sizes
\* 0, 0.5, 2.5 and 9000.
ClampedSizes == {1, 2, maxTextureDimension2D}

\* A notification leaves both dimensions in [1, maxTextureDimension2D].
ResizeClamps ==
    canvas' # canvas =>
        /\ InDeviceRange(canvas'.width) /\ InDeviceRange(canvas'.height)
        /\ canvas'.width \in ClampedSizes /\ canvas'.height \in ClampedSizes

\* The aspect ratio a frame has computed is a positive number.
AspectIsPositive ==
    demo \in BufferDemos /\ fpc \notin {"idle", "entry", "inputs"} =>
        /\ aspect # NotANumber /\ aspect[2] # 0
        /\ IsPositive(aspect)
        /\ aspect = Div(Num(canvas.width, 1), Num(canvas.height, 1))

\* C15: after any resize notification (content-box sizes 0, below 1,
\* fractional, above the device limit) canvas.width and canvas.height lie in
\* [1, device.limits.maxTextureDimension2D], and every frame computes a finite,
\* strictly positive aspect ratio.
C15_ResizeClamped ==
    /\ [](InDeviceRange(canvas.width) /\ InDeviceRange(canvas.height))
    /\ []AspectIsPositive
    /\ [][ResizeClamps]_vars

\* C15 witness: a frame after a notification of 9000 by 0.5: the canvas is
\* 8192 by 1 and the aspect 8192.
C15_Witness ==
    /\ demo \in BufferDemos /\ fpc = "beginPass"
    /\ canvas = [width |-> maxTextureDimension2D, height |-> 1]
    /\ aspect = Num(maxTextureDimension2D, 1)

\* The float indices (from 0) of record i's slice that hold a field: 8i..8i+5
\* of the static array, 4i..4i+2 of the changing array.
StaticSlice(i) == (8 * i)..(8 * i + 5)

ChangingSlice(i) == (4 * i)..(4 * i + 2)

WrittenSlots(kind) == {w[3] : w \in {v \in writes : v[1] = kind}}

\* storage demo: every slot written so far is a field slot of the slice of a
\* record, inside the array; padding slots hold the 0 they were created with;
\* every slice holds the values of its own record; no set() was out of range.
StorageSlices ==
    demo = "storage" /\ pc \in {"generate", "ready", "running"} =>
        /\ 4 * Len(cpuStatic[1]) = 32 * kNumObjects
        /\ cpuDyn # <<>> => 4 * Len(cpuDyn[1]) = 16 * kNumObjects
        /\ WrittenSlots("static") = UNION {StaticSlice(i) : i \in 0..(genI - 1)}
        /\ WrittenSlots("static") \subseteq 0..(Len(cpuStatic[1]) - 1)
        /\ \A i \in 0..(kNumObjects - 1) :
              /\ cpuStatic[1][8 * i + 7] = Zero /\ cpuStatic[1][8 * i + 8] = Zero
              /\ i < genI =>
                    /\ Slice(cpuStatic[1], 8 * i, 4) = staticWritten[i + 1].color
                    /\ Slice(cpuStatic[1], 8 * i + 4, 2) = staticWritten[i + 1].offset
        /\ cpuDyn # <<>> =>
              /\ WrittenSlots("dynamic") \subseteq
                    UNION {ChangingSlice(i) : i \in 0..(kNumObjects - 1)}
              /\ WrittenSlots("dynamic") \subseteq 0..(Len(cpuDyn[1]) - 1)
              /\ \A i \in 0..(kNumObjects - 1) : cpuDyn[1][4 * i + 4] = Zero
        /\ FrameDone =>
              /\ WrittenSlots("dynamic") =
                    UNION {ChangingSlice(i) : i \in 0..(kNumObjects - 1)}
              /\ \A i \in 0..(kNumObjects - 1) :
                    /\ Slice(cpuDyn[1], 4 * i, 2) = RecordData(i + 1).scale
                    /\ cpuDyn[1][4 * i + 3] = RecordData(i + 1).time
        /\ \A j \in 1..Len(steps) : steps[j][1] = "throw" => steps[j - 1][1] = "aspect"

\* storage demo: the iteration for record i, at initialization and in a frame,
\* changes and first writes only slots of record i's slice.
WritesStayInSlice ==
    /\ (demo = "storage" /\ pc = "generate" /\ pc' = "generate") =>
          /\ \A w \in writes' \ writes : w[1] = "static" /\ w[3] \in StaticSlice(genI)
          /\ \A j \in 1..Len(cpuStatic[1]) :
                cpuStatic'[1][j] # cpuStatic[1][j] => (j - 1) \in StaticSlice(genI)
          /\ cpuDyn' = cpuDyn
    /\ (demo = "storage" /\ fpc = "loop") =>
          /\ \A w \in writes' \ writes : w[1] = "dynamic" /\ w[3] \in ChangingSlice(fi)
          /\ \A j \in 1..Len(cpuDyn[1]) :
                cpuDyn'[1][j] # cpuDyn[1][j] => (j - 1) \in ChangingSlice(fi)
          /\ cpuStatic' = cpuStatic

\* C16: in the storage demo every write made for record i lands in record i's
\* slice, [8i, 8i+5] of the static array and [4i, 4i+2] of the changing array:
\* none past the end of the array, none in another record's slice, none in a
\* padding slot.
C16_WritesInOwnSlice ==
    /\ []StorageSlices
    /\ [](demo = "storage" /\ pc = "threw" => ~host.gpu /\ writes = {})
    /\ [][WritesStayInSlice]_vars

\* C16 witness: the storage demo after a frame with two records: slots 4..6 of
\* the changing array and 8..13 of the static array are written, slot 7 is not.
C16_Witness ==
    /\ demo = "storage" /\ kNumObjects = 2 /\ FrameDone
    /\ WrittenSlots("dynamic") = {0, 1, 2, 4, 5, 6}
    /\ WrittenSlots("static") = (0..5) \cup (8..13)
    /\ cpuDyn[1][5] # Zero

====
